---- MODULE Spec2Model ----
(***************************************************************************)
(* SharpService (src/resources/processor/services/sharp/sharp.service.ts): *)
(* every entry point builds a one-shot pipeline on the image engine,       *)
(* awaits it, and either returns the engine's value or catches the fault   *)
(* and throws an InternalServerErrorException.  A call is suspended only   *)
(* at its awaits; everything between two awaits is one atomic step.        *)
(***************************************************************************)
EXTENDS Integers, Sequences, FiniteSets, TLC

\* ------------------------------------------------------------- bounds
\* Largest width / height of a source image.
MaxDim == 2

\* Caller slots; each holds at most one call of an entry point at a time.
Calls == {1, 2}

\* Caller-owned composite-options records (passed by reference); reference 0
\* stands for an options argument that is undefined.
OptRefs == {1, 2}

\* ------------------------------------------------------------- values
\* An optional value: << >> is an absent field (undefined), <<v>> a supplied v.
Opt(S) == {<< >>} \cup {<<v>> : v \in S}

Dims == 1..MaxDim

\* An encoded image.  fault: "none", "header" (nothing decodes) or "pixels"
\* (the header reads, the pixel data does not).  hist is the chain of engine
\* steps that produced it from a source image.
Image(w, h, f) ==
    [width |-> w, height |-> h, format |-> "jpeg", fault |-> f, hist |-> << >>]

SourceBuffers ==
    {Image(w, h, "none") : w \in Dims, h \in Dims}
        \cup {Image(1, 1, "header"), Image(1, 1, "pixels")}

\* A small set: both orientations and an undecodable image.
FewBuffers ==
    {Image(1, MaxDim, "none"), Image(MaxDim, 1, "none"), Image(1, 1, "pixels")}

NoBuffer == [width |-> 0, height |-> 0, format |-> "none", fault |-> "none", hist |-> << >>]

NoMetadata == [width |-> 0, height |-> 0, format |-> "none"]

\* ------------------------------------------------------------- engine
\* The engine refuses to decode or to produce more pixels than this
\* (sharp's pixel limit, scaled to the model: only MaxDim x MaxDim exceeds it).
EnginePixelLimit == MaxDim * MaxDim - 1

Ok(v) == [ok |-> TRUE, value |-> v, message |-> ""]

Fault(v, m) == [ok |-> FALSE, value |-> v, message |-> m]

Decodable(img) ==
    /\ img.fault = "none"
    /\ img.width * img.height <= EnginePixelLimit

DecodeMessage(img) ==
    IF img.fault # "none" THEN "Input buffer contains unsupported image format"
    ELSE "Input image exceeds pixel limit"

\* Rounded proportional size, at least one pixel.
Scale(x, num, den) ==
    LET r == (2 * x * num + den) \div (2 * den) IN IF r < 1 THEN 1 ELSE r

\* One step of a pipeline applied to a decoded image.
EngineStep(img, step) ==
    CASE step.name = "toFormat" ->
            Ok([img EXCEPT !.format = step.format])
      [] step.name = "resize" ->
            LET w == IF step.width # << >> THEN step.width[1]
                     ELSE IF step.height # << >>
                          THEN Scale(img.width, step.height[1], img.height)
                          ELSE img.width
                h == IF step.height # << >> THEN step.height[1]
                     ELSE IF step.width # << >>
                          THEN Scale(img.height, step.width[1], img.width)
                          ELSE img.height
            IN  IF w * h > EnginePixelLimit
                THEN Fault(NoBuffer, "Output image exceeds pixel limit")
                ELSE Ok([img EXCEPT !.width = w, !.height = h])
      [] step.name = "extract" ->
            IF /\ step.left + step.width <= img.width
               /\ step.top + step.height <= img.height
            THEN Ok([img EXCEPT !.width = step.width, !.height = step.height])
            ELSE Fault(NoBuffer, "extract_area: bad extract area")
      [] step.name = "rotate" ->
            IF step.angle = <<90>>
            THEN Ok([img EXCEPT !.width = img.height, !.height = img.width])
            ELSE Ok(img)
      [] step.name = "composite" ->
            IF step.input = << >>
            THEN Fault(NoBuffer, "Unsupported input 'undefined'")
            ELSE LET over == step.input[1] IN
                 IF ~Decodable(over) THEN Fault(NoBuffer, DecodeMessage(over))
                 ELSE IF over.width > img.width \/ over.height > img.height
                 THEN Fault(NoBuffer, "Image to composite must have same dimensions or smaller")
                 ELSE Ok(img)
      [] OTHER -> Ok(img)

RECURSIVE RunChain(_, _)
RunChain(img, chain) ==
    IF chain = << >> THEN Ok(img)
    ELSE LET r == EngineStep(img, Head(chain)) IN
         IF r.ok THEN RunChain(r.value, Tail(chain)) ELSE r

\* sharp(input). ... .toBuffer(): decode, run the chain, encode.
EngineToBuffer(input, chain) ==
    IF ~Decodable(input) THEN Fault(NoBuffer, DecodeMessage(input))
    ELSE LET r == RunChain(input, chain) IN
         IF r.ok THEN Ok([r.value EXCEPT !.hist = input.hist \o chain]) ELSE r

\* sharp(input).metadata(): reads the header only.
EngineMetadata(input) ==
    IF input.fault = "header" THEN Fault(NoMetadata, DecodeMessage(input))
    ELSE Ok([width |-> input.width, height |-> input.height, format |-> input.format])

\* sharp(input).stats(): reads the pixels.
EngineStats(input) ==
    IF ~Decodable(input) THEN Fault(NoMetadata, DecodeMessage(input))
    ELSE Ok([width |-> input.width, height |-> input.height, format |-> input.format])

\* sharp(input).toFile(path): encode as is and write.
EngineToFile(input) ==
    IF ~Decodable(input) THEN Fault(NoMetadata, DecodeMessage(input))
    ELSE Ok([width |-> input.width, height |-> input.height, format |-> input.format])

\* A job handed to the engine and the result it settles with.
Job(kind, input, chain, path) ==
    [kind |-> kind, input |-> input, chain |-> chain, path |-> path]

NoJob == Job("none", NoBuffer, << >>, "")

EngineExec(job) ==
    CASE job.kind = "metadata" -> EngineMetadata(job.input)
      [] job.kind = "stats" -> EngineStats(job.input)
      [] job.kind = "toFile" -> EngineToFile(job.input)
      [] OTHER -> EngineToBuffer(job.input, job.chain)


\* ------------------------------------------------------------- errors
\* What the engine rejects with.
EngineError(m) == [name |-> "Error", message |-> m, description |-> ""]

\* new InternalServerErrorException(message, description); its .message is
\* the first argument.
InternalServerErrorException(message, description) ==
    [name |-> "InternalServerErrorException", message |-> message,
     description |-> description]

TypeError ==
    [name |-> "TypeError", description |-> "",
     message |-> "Cannot set properties of undefined (setting 'input')"]

NoError == [name |-> "none", message |-> "", description |-> ""]

\* The description each entry point's catch block passes.
CatchDescription(op) ==
    CASE op = "getMetadata" -> "Error getting image metadata"
      [] op = "getStats" -> "Error getting image stats"
      [] op = "storeImage" -> "Error storing image"
      [] op = "convertFormat" -> "Error converting image"
      [] op = "resizeImage" -> "Error converting image"
      [] op = "getImageBuffer" -> "Error getting image buffer"
      [] op = "cropImage" -> "Error cropping image"
      [] op = "rotateImage" -> "Error rotating image"
      [] op = "verticalFlipImage" -> "Error flipping image vertical"
      [] op = "horizontalFlipImage" -> "Error flipping image vertical"
      [] op = "setImageEffects" -> "Error applying image effects"
      [] op = "trimImage" -> "Error trim image"
      [] op = "setTransparencyBackgroundColor" -> "Error setting transparency background color"
      [] op = "composeImages" -> "Error composing images"

\* catch (error) { throw new InternalServerErrorException(error.message, ...) }
Catch(op, error) == InternalServerErrorException(error.message, CatchDescription(op))

composeImagesRethrow(error) == error

composeImagesCatch(error) == Catch("composeImages", error)

\* A rejected await leaves the try block for the catch block; a resolved one
\* goes on with the next statement.
nextPcIgnoreFault(r, cont) == cont

nextPc(r, cont) == IF r.ok THEN cont ELSE "catch"

\* ------------------------------------------------------------- state
VARIABLES
    pc,        \* where each call is suspended: "idle", an await, or "done"
    args,      \* the arguments the call was made with
    locals,    \* the call's local variables
    pending,   \* the engine job the call awaits
    outcome,   \* what the call returned or threw
    log,       \* per call: engine invocations, faults and option writes, in order
    heap,      \* the caller-owned composite-options records
    files      \* paths written by toFile

vars == <<pc, args, locals, pending, outcome, log, heap, files>>

NoProps == [none |-> TRUE]

NoArgs ==
    [op |-> "none", imageBuffer |-> NoBuffer, imageBuffer2 |-> NoBuffer,
     optRef |-> 0, props |-> NoProps, optsBefore |-> << >>]

NoLocals ==
    [imageBuffer |-> NoBuffer, imageBuffer1 |-> NoBuffer,
     image2Width |-> 0, image2Height |-> 0]

NoOutcome == [kind |-> "none", value |-> NoBuffer, error |-> NoError]

Returned(v) == [kind |-> "returned", value |-> v, error |-> NoError]

Thrown(e) == [kind |-> "thrown", value |-> NoBuffer, error |-> e]

Ev(ev, step, job, message) ==
    [ev |-> ev, step |-> step, job |-> job, message |-> message]

Args(op, b1, b2, ref, props) ==
    [op |-> op, imageBuffer |-> b1, imageBuffer2 |-> b2, optRef |-> ref,
     props |-> props,
     optsBefore |-> IF ref \in OptRefs THEN <<heap[ref]>> ELSE << >>]

Init ==
    /\ pc = [c \in Calls |-> "idle"]
    /\ args = [c \in Calls |-> NoArgs]
    /\ locals = [c \in Calls |-> NoLocals]
    /\ pending = [c \in Calls |-> NoJob]
    /\ outcome = [c \in Calls |-> NoOutcome]
    /\ log = [c \in Calls |-> << >>]
    /\ heap = [o \in OptRefs |->
                 [input |-> << >>, blend |-> IF o = 1 THEN "over" ELSE "multiply"]]
    /\ files = {}

\* The synchronous head of an entry point: log, build the pipeline, start
\* the engine and suspend at the await.
Begin(c, a, lcl, step, job, at) ==
    /\ pc[c] = "idle"
    /\ pc' = [pc EXCEPT ![c] = at]
    /\ args' = [args EXCEPT ![c] = a]
    /\ locals' = [locals EXCEPT ![c] = lcl]
    /\ pending' = [pending EXCEPT ![c] = job]
    /\ outcome' = [outcome EXCEPT ![c] = NoOutcome]
    /\ log' = [log EXCEPT ![c] = <<Ev("invoke", step, job, "")>>]
    /\ UNCHANGED <<heap, files>>

\* The call ends: return value or thrown exception.
Finish(c, o, evs) ==
    /\ pc' = [pc EXCEPT ![c] = "done"]
    /\ pending' = [pending EXCEPT ![c] = NoJob]
    /\ outcome' = [outcome EXCEPT ![c] = o]
    /\ log' = [log EXCEPT ![c] = @ \o evs]
    /\ UNCHANGED <<args, locals>>

\* The next await of a multi-step entry point.
Continue(c, lcl, step, job, at, evs) ==
    /\ pc' = [pc EXCEPT ![c] = at]
    /\ locals' = [locals EXCEPT ![c] = lcl]
    /\ pending' = [pending EXCEPT ![c] = job]
    /\ log' = [log EXCEPT ![c] = @ \o evs \o <<Ev("invoke", step, job, "")>>]
    /\ UNCHANGED <<args, outcome>>


\* ------------------------------------------------------------- option records
\* JavaScript's x || d on an optional number: undefined and 0 are falsy.
Truthy(x) == x # << >> /\ x # <<0>>

OrNum(x, d) == IF Truthy(x) THEN x[1] ELSE d

\* x || false on an optional boolean.
OrBool(x, d) == IF x # << >> /\ x # <<FALSE>> THEN x[1] ELSE d

DefaultThreshold == 120
DefaultMedian == 3
\* blur is counted in tenths: 0.3
DefaultBlurTenths == 3
DefaultBrightness == 1
DefaultSaturation == 1
DefaultHue == 0
DefaultLightness == 1
DefaultTrim == 10

\* Values a caller may give a numeric knob: absent, zero, or a setting.
KnobValues == Opt({0, 2})

EffectsProperties ==
    {[median |-> k, blur |-> j, negate |-> n, grayscale |-> << >>,
      threshold |-> t, thresholdGrayscale |-> n,
      brightness |-> k, saturation |-> j, hue |-> j, lightness |-> k,
      tint |-> "#102030"] :
        k \in KnobValues, j \in KnobValues, t \in Opt({0, 1}), n \in Opt({TRUE})}

ResizeOptions ==
    Opt({[fit |-> "contain", position |-> "top", kernel |-> "nearest",
          withoutEnlargement |-> TRUE]})

ResizeProperties ==
    {[width |-> w, height |-> h, options |-> o] :
        w \in Opt(Dims), h \in Opt(Dims), o \in ResizeOptions}

ConvertProperties ==
    {[format |-> f, options |-> o] :
        f \in {"png", "webp"}, o \in Opt({[quality |-> 80]})}

CropProperties ==
    {[left |-> l, top |-> t, width |-> w, height |-> h] :
        l \in 0..1, t \in {0}, w \in Dims, h \in Dims}

RotateProperties == {[angle |-> a, options |-> << >>] : a \in Opt({90})}

\* ------------------------------------------------------------- pipelines
toFormatChain(p) ==
    IF p.options # << >>
    THEN <<[name |-> "toFormat", format |-> p.format, options |-> p.options]>>
    ELSE <<[name |-> "toFormat", format |-> p.format, options |-> << >>]>>

\* .resize(resizeProperties.width, resizeProperties.height)
resizeChain(p) ==
    <<[name |-> "resize", width |-> p.width, height |-> p.height, options |-> << >>]>>

extractChain(p) ==
    <<[name |-> "extract", left |-> p.left, top |-> p.top,
       width |-> p.width, height |-> p.height]>>

rotateChain(p) == <<[name |-> "rotate", angle |-> p.angle, options |-> p.options]>>

thresholdChain(p) ==
    <<[name |-> "threshold", value |-> OrNum(p.threshold, DefaultThreshold),
       grayscale |-> OrBool(p.thresholdGrayscale, FALSE)]>>

effectsChainBlurFirst(p) ==
    <<[name |-> "blur", value |-> OrNum(p.blur, DefaultBlurTenths)],
      [name |-> "median", value |-> OrNum(p.median, DefaultMedian)],
      [name |-> "negate", value |-> OrBool(p.negate, FALSE)],
      [name |-> "grayscale", value |-> OrBool(p.grayscale, FALSE)],
      [name |-> "modulate",
       brightness |-> OrNum(p.brightness, DefaultBrightness),
       saturation |-> OrNum(p.saturation, DefaultSaturation),
       hue |-> OrNum(p.hue, DefaultHue),
       lightness |-> OrNum(p.lightness, DefaultLightness)],
      [name |-> "tint", value |-> p.tint]>>

effectsChain(p) ==
    <<[name |-> "median", value |-> OrNum(p.median, DefaultMedian)],
      [name |-> "blur", value |-> OrNum(p.blur, DefaultBlurTenths)],
      [name |-> "negate", value |-> OrBool(p.negate, FALSE)],
      [name |-> "grayscale", value |-> OrBool(p.grayscale, FALSE)],
      [name |-> "modulate",
       brightness |-> OrNum(p.brightness, DefaultBrightness),
       saturation |-> OrNum(p.saturation, DefaultSaturation),
       hue |-> OrNum(p.hue, DefaultHue),
       lightness |-> OrNum(p.lightness, DefaultLightness)],
      [name |-> "tint", value |-> p.tint]>>

trimChain(trimLevel) == <<[name |-> "trim", threshold |-> OrNum(trimLevel, DefaultTrim)]>>

flattenChain(colour) == <<[name |-> "flatten", background |-> colour]>>

pngChain == <<[name |-> "toFormat", format |-> "png", options |-> << >>]>>

composeResizeWidthOnly(image2Width, image2Height) ==
    <<[name |-> "resize", width |-> <<image2Width>>, height |-> << >>,
       options |-> <<[position |-> "centre"]>>]>>

\* .resize({width: image2Width, height: image2Height, position: 'centre'})
composeResizeChain(image2Width, image2Height) ==
    <<[name |-> "resize", width |-> <<image2Width>>, height |-> <<image2Height>>,
       options |-> <<[position |-> "centre"]>>]>>

\* .composite([compositeOptions])
compositeChain(compositeOptions) ==
    <<[name |-> "composite", input |-> compositeOptions.input,
       blend |-> compositeOptions.blend]>>

\* ------------------------------------------------------------- entry points
ToBuffer(input, chain) == Job("toBuffer", input, chain, "")

Working(b) == [NoLocals EXCEPT !.imageBuffer = b]

getMetadata(c, bufs) ==
    \E b \in bufs :
        Begin(c, Args("getMetadata", b, NoBuffer, 0, NoProps), Working(b),
              "getMetadata", Job("metadata", b, << >>, ""), "await")

getStats(c, bufs) ==
    \E b \in bufs :
        Begin(c, Args("getStats", b, NoBuffer, 0, NoProps), Working(b),
              "getStats", Job("stats", b, << >>, ""), "await")

storeImage(c, bufs) ==
    \E b \in bufs, imageName \in {"a.png"} :
        Begin(c, Args("storeImage", b, NoBuffer, 0, [path |-> "out", imageName |-> imageName]),
              Working(b), "storeImage",
              Job("toFile", b, << >>, <<"out", imageName>>), "await")

convertFormat(c, bufs) ==
    \E b \in bufs, p \in ConvertProperties :
        Begin(c, Args("convertFormat", b, NoBuffer, 0, p), Working(b),
              "convertFormat", ToBuffer(b, toFormatChain(p)), "await")

resizeImage(c, bufs) ==
    \E b \in bufs, p \in ResizeProperties :
        Begin(c, Args("resizeImage", b, NoBuffer, 0, p), Working(b),
              "resizeImage", ToBuffer(b, resizeChain(p)), "await")

getImageBuffer(c, bufs) ==
    \E b \in bufs :
        Begin(c, Args("getImageBuffer", b, NoBuffer, 0, NoProps), Working(b),
              "getImageBuffer", ToBuffer(b, << >>), "await")

cropImage(c, bufs) ==
    \E b \in bufs, p \in CropProperties :
        Begin(c, Args("cropImage", b, NoBuffer, 0, p), Working(b),
              "cropImage", ToBuffer(b, extractChain(p)), "await")

rotateImage(c, bufs) ==
    \E b \in bufs, p \in RotateProperties :
        Begin(c, Args("rotateImage", b, NoBuffer, 0, p), Working(b),
              "rotateImage", ToBuffer(b, rotateChain(p)), "await")

verticalFlipImage(c, bufs) ==
    \E b \in bufs :
        Begin(c, Args("verticalFlipImage", b, NoBuffer, 0, NoProps), Working(b),
              "verticalFlipImage", ToBuffer(b, <<[name |-> "flip"]>>), "await")

horizontalFlipImage(c, bufs) ==
    \E b \in bufs :
        Begin(c, Args("horizontalFlipImage", b, NoBuffer, 0, NoProps), Working(b),
              "horizontalFlipImage", ToBuffer(b, <<[name |-> "flop"]>>), "await")

trimImage(c, bufs) ==
    \E b \in bufs, trimLevel \in Opt({0, 5}) :
        Begin(c, Args("trimImage", b, NoBuffer, 0, [trimLevel |-> trimLevel]), Working(b),
              "trimImage", ToBuffer(b, trimChain(trimLevel)), "await")

setTransparencyBackgroundColor(c, bufs) ==
    \E b \in bufs, colour \in {"#ffffff"} :
        Begin(c, Args("setTransparencyBackgroundColor", b, NoBuffer, 0,
                      [background |-> colour]), Working(b),
              "setTransparencyBackgroundColor", ToBuffer(b, flattenChain(colour)), "await")

\* The step the call is suspended on.
Awaited(c) == log[c][Len(log[c])].step

\* The engine's rejection of the awaited job, if it rejects.
FaultEv(c, r) ==
    IF r.ok THEN << >> ELSE <<Ev("fault", Awaited(c), NoJob, r.message)>>

\* return await <pipeline>  /  catch (error) { throw ... } of a one-step
\* entry point (and of the main chain of setImageEffects).
Settle(c) ==
    /\ pc[c] = "await"
    /\ LET r == EngineExec(pending[c]) IN
       IF nextPc(r, "return") = "catch"
       THEN /\ Finish(c, Thrown(Catch(args[c].op, EngineError(r.message))), FaultEv(c, r))
            /\ UNCHANGED files
       ELSE /\ Finish(c, Returned(r.value), FaultEv(c, r))
            /\ files' = IF pending[c].kind = "toFile" /\ r.ok
                        THEN files \cup {pending[c].path} ELSE files
    /\ UNCHANGED heap


\* ------------------------------------------------------------- setImageEffects
\* Lines 225-233: the threshold pre-pass is started only for a truthy
\* threshold; otherwise the main chain starts on the caller's buffer.
setImageEffects(c, bufs) ==
    \E b \in bufs, p \in EffectsProperties :
        IF Truthy(p.threshold)
        THEN Begin(c, Args("setImageEffects", b, NoBuffer, 0, p), Working(b),
                   "threshold", ToBuffer(b, thresholdChain(p)), "effects_threshold")
        ELSE Begin(c, Args("setImageEffects", b, NoBuffer, 0, p), Working(b),
                   "effects", ToBuffer(b, effectsChain(p)), "await")

\* imageBuffer = await ...threshold(...).toBuffer(); then the main chain.
setImageEffectsThresholdSettled(c) ==
    /\ pc[c] = "effects_threshold"
    /\ LET r == EngineExec(pending[c]) IN
       IF nextPc(r, "main") = "catch"
       THEN Finish(c, Thrown(Catch("setImageEffects", EngineError(r.message))), FaultEv(c, r))
       ELSE Continue(c, [locals[c] EXCEPT !.imageBuffer = r.value], "effects",
                     ToBuffer(r.value, effectsChain(args[c].props)), "await", FaultEv(c, r))
    /\ UNCHANGED <<heap, files>>

\* ------------------------------------------------------------- composeImages
keepPrevious(previous, resized) == previous

\* imageBuffer1 = await sharp(imageBuffer1).resize(...).toBuffer()
assignResized(previous, resized) == resized

compositeOverlayAtRun(descriptorAtCall, optionsAtRun) == optionsAtRun.input

\* composite([compositeOptions]) builds its input descriptor from
\* compositeOptions.input when it is called, before the await; later writes
\* to the options record do not reach the pass.
compositeOverlay(descriptorAtCall, optionsAtRun) == descriptorAtCall

\* Lines 293-296.
composeImages(c, bufs, refs) ==
    \E a \in bufs, b \in bufs, o \in refs :
        Begin(c, Args("composeImages", a, b, o, NoProps),
              [NoLocals EXCEPT !.imageBuffer1 = a],
              "png", ToBuffer(a, pngChain), "compose_png")

\* Line 296 settles; lines 298-299 call this.getMetadata(imageBuffer2).
composeImagesPngSettled(c) ==
    /\ pc[c] = "compose_png"
    /\ LET r == EngineExec(pending[c]) IN
       IF nextPc(r, "metadata") = "catch"
       THEN Finish(c, Thrown(composeImagesCatch(EngineError(r.message))), FaultEv(c, r))
       ELSE Continue(c, [locals[c] EXCEPT !.imageBuffer1 = r.value], "metadata",
                     Job("metadata", args[c].imageBuffer2, << >>, ""),
                     "compose_metadata", FaultEv(c, r))
    /\ UNCHANGED <<heap, files>>

\* getMetadata settles (its own catch rethrows into composeImages' catch);
\* lines 301-307 start the resize.
composeImagesMetadataSettled(c) ==
    /\ pc[c] = "compose_metadata"
    /\ LET r == EngineExec(pending[c]) IN
       IF nextPc(r, "resize") = "catch"
       THEN Finish(c, Thrown(composeImagesCatch(Catch("getMetadata", EngineError(r.message)))),
                   FaultEv(c, r))
       ELSE Continue(c, [locals[c] EXCEPT !.image2Width = r.value.width,
                                          !.image2Height = r.value.height],
                     "resize",
                     ToBuffer(locals[c].imageBuffer1,
                              composeResizeChain(r.value.width, r.value.height)),
                     "compose_resize", FaultEv(c, r))
    /\ UNCHANGED <<heap, files>>

\* The resize settles; line 309 writes compositeOptions.input and lines
\* 311-313 start the composite pass, with no await in between.  Writing to
\* an options argument that is undefined raises a TypeError inside the try.
composeImagesResizeSettled(c) ==
    /\ pc[c] = "compose_resize"
    /\ LET r == EngineExec(pending[c])
           o == args[c].optRef
       IN
       IF nextPc(r, "composite") = "catch"
       THEN /\ Finish(c, Thrown(composeImagesCatch(EngineError(r.message))), FaultEv(c, r))
            /\ UNCHANGED heap
       ELSE IF o \notin OptRefs
       THEN /\ Finish(c, Thrown(composeImagesCatch(TypeError)),
                      FaultEv(c, r) \o <<Ev("fault", "input", NoJob, TypeError.message)>>)
            /\ UNCHANGED heap
       ELSE LET base == assignResized(locals[c].imageBuffer1, r.value)
                written == [heap[o] EXCEPT !.input = <<args[c].imageBuffer2>>]
            IN  /\ heap' = [heap EXCEPT ![o] = written]
                /\ Continue(c, [locals[c] EXCEPT !.imageBuffer1 = base], "composite",
                            ToBuffer(base, compositeChain(written)), "compose_composite",
                            FaultEv(c, r) \o <<Ev("inject", "input", NoJob, "")>>)
    /\ UNCHANGED files

\* The composite pass runs and settles.
composeImagesCompositeSettled(c) ==
    /\ pc[c] = "compose_composite"
    /\ LET job == pending[c]
           step == [job.chain[1] EXCEPT
                      !.input = compositeOverlay(@, heap[args[c].optRef])]
           r == EngineExec([job EXCEPT !.chain = <<step>>])
       IN
       IF nextPc(r, "return") = "catch"
       THEN Finish(c, Thrown(composeImagesCatch(EngineError(r.message))), FaultEv(c, r))
       ELSE Finish(c, Returned(r.value), FaultEv(c, r))
    /\ UNCHANGED <<heap, files>>

\* ------------------------------------------------------------- callers
\* The caller takes the outcome; the slot is free for the next call.
Release(c) ==
    /\ pc[c] = "done"
    /\ pc' = [pc EXCEPT ![c] = "idle"]
    /\ args' = [args EXCEPT ![c] = NoArgs]
    /\ locals' = [locals EXCEPT ![c] = NoLocals]
    /\ outcome' = [outcome EXCEPT ![c] = NoOutcome]
    /\ log' = [log EXCEPT ![c] = << >>]
    /\ UNCHANGED <<pending, heap, files>>

\* One caller making call after call: no other call is in progress, and the
\* caller uses the first slot.
Alone(c) == \A d \in Calls \ {c} : pc[d] = "idle" /\ c < d

Settled(c) ==
    \/ Settle(c)
    \/ setImageEffectsThresholdSettled(c)
    \/ composeImagesPngSettled(c)
    \/ composeImagesMetadataSettled(c)
    \/ composeImagesResizeSettled(c)
    \/ composeImagesCompositeSettled(c)

\* One caller at a time, every entry point, every input.
Next ==
    \E c \in Calls :
        \/ Alone(c) /\ getMetadata(c, SourceBuffers)
        \/ Alone(c) /\ getStats(c, SourceBuffers)
        \/ Alone(c) /\ storeImage(c, SourceBuffers)
        \/ Alone(c) /\ convertFormat(c, SourceBuffers)
        \/ Alone(c) /\ resizeImage(c, FewBuffers)
        \/ Alone(c) /\ getImageBuffer(c, SourceBuffers)
        \/ Alone(c) /\ cropImage(c, SourceBuffers)
        \/ Alone(c) /\ rotateImage(c, SourceBuffers)
        \/ Alone(c) /\ verticalFlipImage(c, SourceBuffers)
        \/ Alone(c) /\ horizontalFlipImage(c, SourceBuffers)
        \/ Alone(c) /\ setImageEffects(c, FewBuffers)
        \/ Alone(c) /\ trimImage(c, SourceBuffers)
        \/ Alone(c) /\ setTransparencyBackgroundColor(c, SourceBuffers)
        \/ Alone(c) /\ composeImages(c, SourceBuffers, {0, 1})
        \/ Settled(c)
        \/ Release(c)

Spec == Init /\ [][Next]_vars

\* Overlapping callers: calls interleave at their awaits.
NextConc ==
    \E c \in Calls :
        \/ composeImages(c, FewBuffers, OptRefs)
        \/ getMetadata(c, FewBuffers)
        \/ resizeImage(c, FewBuffers)
        \/ Settle(c)
        \/ composeImagesPngSettled(c)
        \/ composeImagesMetadataSettled(c)
        \/ composeImagesResizeSettled(c)
        \/ composeImagesCompositeSettled(c)

SpecConc == Init /\ [][NextConc]_vars


\* ------------------------------------------------------------- properties
IsCall(c, op) == args[c].op = op

Invocations(c) == SelectSeq(log[c], LAMBDA e : e.ev = "invoke")

Faults(c) == SelectSeq(log[c], LAMBDA e : e.ev = "fault")

StepNames(chain) == [i \in 1..Len(chain) |-> chain[i].name]

\* The summary that names each operation.
OperationSummary(op) ==
    CASE op = "resizeImage" -> "Error resizing image"
      [] op = "horizontalFlipImage" -> "Error flipping image horizontal"
      [] OTHER -> CatchDescription(op)

\* C1: a fault raised by the engine during a call of any entry point surfaces
\* as one InternalServerErrorException whose summary names that operation.
C1_FailureNamesOperation ==
    \A c \in Calls :
        Faults(c) # << >> =>
            /\ outcome[c].kind = "thrown"
            /\ outcome[c].error.name = "InternalServerErrorException"
            /\ outcome[c].error.description = OperationSummary(args[c].op)

\* C2: when a step of composeImages raises, the call ends with one
\* InternalServerErrorException whose summary is the composing-images one and
\* whose message is the original message, and no buffer is returned; also
\* when the fault is raised in getMetadata.
C2_ComposeFailure ==
    \A c \in Calls :
        IsCall(c, "composeImages") /\ Faults(c) # << >> =>
            /\ pc[c] = "done"
            /\ Len(Faults(c)) = 1
            /\ outcome[c].kind = "thrown"
            /\ outcome[c].error.name = "InternalServerErrorException"
            /\ outcome[c].error.description = "Error composing images"
            /\ outcome[c].error.message = Faults(c)[1].message
            /\ outcome[c].value = NoBuffer

C2_Witness ==
    \E c \in Calls :
        /\ IsCall(c, "composeImages")
        /\ pc[c] = "done"
        /\ Faults(c) # << >>
        /\ Faults(c)[1].step = "metadata"
        /\ outcome[c].kind = "thrown"

\* C3: a successful composeImages returns a buffer whose width and height are
\* those of imageBuffer2's metadata, whatever imageBuffer1's are.
C3_ComposeDimensions ==
    \A c \in Calls :
        IsCall(c, "composeImages") /\ outcome[c].kind = "returned" =>
            /\ outcome[c].value.width = args[c].imageBuffer2.width
            /\ outcome[c].value.height = args[c].imageBuffer2.height

C3_Witness ==
    \E c \in Calls :
        /\ IsCall(c, "composeImages")
        /\ outcome[c].kind = "returned"
        /\ args[c].imageBuffer.width # args[c].imageBuffer2.width
        /\ args[c].imageBuffer.height # args[c].imageBuffer2.height

\* C4: every policy field supplied in resizeProperties.options reaches the
\* engine's resize step.
C4_ResizeOptionsReachEngine ==
    \A c \in Calls :
        IsCall(c, "resizeImage") /\ log[c] # << >> =>
            log[c][1].job.chain[1].options = args[c].props.options

\* C5: after a call, returned or failed, every caller-supplied options record
\* holds the value it held before the call.
C5_NoCallerVisibleMutation ==
    \A c \in Calls :
        pc[c] = "done" /\ args[c].optRef \in OptRefs =>
            <<heap[args[c].optRef]>> = args[c].optsBefore

\* The outcome of a call that runs with no other call in progress.
AloneOutcome(a) ==
    IF a.op = "composeImages"
    THEN LET fail(m) == Thrown(InternalServerErrorException(m, "Error composing images"))
             r1 == EngineToBuffer(a.imageBuffer, pngChain)
             r2 == EngineMetadata(a.imageBuffer2)
             r3 == EngineToBuffer(r1.value, composeResizeChain(r2.value.width, r2.value.height))
             r4 == EngineToBuffer(r3.value,
                       <<[name |-> "composite", input |-> <<a.imageBuffer2>>,
                          blend |-> a.optsBefore[1].blend]>>)
         IN  IF ~r1.ok THEN fail(r1.message)
             ELSE IF ~r2.ok THEN fail(r2.message)
             ELSE IF ~r3.ok THEN fail(r3.message)
             ELSE IF ~r4.ok THEN fail(r4.message)
             ELSE Returned(r4.value)
    ELSE LET r == IF a.op = "getMetadata" THEN EngineMetadata(a.imageBuffer)
                  ELSE EngineToBuffer(a.imageBuffer, resizeChain(a.props))
         IN  IF r.ok THEN Returned(r.value)
             ELSE Thrown(InternalServerErrorException(r.message, CatchDescription(a.op)))

EffectsInvocation(c) ==
    SelectSeq(log[c], LAMBDA e : e.ev = "invoke" /\ e.step = "effects")

Knob(x, d) == IF x # << >> THEN x[1] ELSE d

\* C7: each numeric knob reaches the engine with the caller's value when one
\* is supplied and with the fallback when the field is absent.
C7_KnobsReachEngine ==
    \A c \in Calls :
        IsCall(c, "setImageEffects") /\ EffectsInvocation(c) # << >> =>
            LET chain == EffectsInvocation(c)[1].job.chain
                p == args[c].props
            IN  /\ chain[1].value = Knob(p.median, 3)
                /\ chain[2].value = Knob(p.blur, 3)
                /\ chain[5].brightness = Knob(p.brightness, 1)
                /\ chain[5].saturation = Knob(p.saturation, 1)
                /\ chain[5].lightness = Knob(p.lightness, 1)
                /\ chain[5].hue = Knob(p.hue, 0)

\* C8: a successful composeImages performs, once each and in this order:
\* png of imageBuffer1, metadata of imageBuffer2, resize of the png result to
\* imageBuffer2's width and height with position 'centre', the write of
\* imageBuffer2 into the options, one composite pass over the resized buffer.
\* In every call the resize starts after the metadata was read and the
\* composite pass runs on a resized buffer.
C8_ComposeOrder ==
    \A c \in Calls :
        IsCall(c, "composeImages") =>
            /\ outcome[c].kind = "returned" =>
                 LET l == log[c]
                     b == args[c].imageBuffer2
                 IN  /\ [i \in 1..Len(l) |-> l[i].step]
                            = <<"png", "metadata", "resize", "input", "composite">>
                     /\ l[1].job = ToBuffer(args[c].imageBuffer, pngChain)
                     /\ l[2].job = Job("metadata", b, << >>, "")
                     /\ l[3].job.input.hist = pngChain
                     /\ l[3].job.chain =
                            <<[name |-> "resize", width |-> <<b.width>>,
                               height |-> <<b.height>>,
                               options |-> <<[position |-> "centre"]>>]>>
                     /\ l[4].ev = "inject"
                     /\ l[5].job.input.hist = pngChain \o l[3].job.chain
                     /\ StepNames(l[5].job.chain) = <<"composite">>
                     /\ l[5].job.chain[1].input = <<b>>
            /\ \A i \in 1..Len(log[c]) :
                 /\ log[c][i].step = "resize" /\ log[c][i].ev = "invoke" =>
                        \E j \in 1..(i - 1) : log[c][j].step = "metadata"
                 /\ log[c][i].step = "composite" /\ log[c][i].ev = "invoke" =>
                        /\ Len(log[c][i].job.input.hist) = 2
                        /\ log[c][i].job.input.hist[2].name = "resize"

C8_Witness ==
    \E c \in Calls :
        /\ IsCall(c, "composeImages")
        /\ outcome[c].kind = "returned"
        /\ Len(log[c]) = 5

\* C9: the threshold pre-pass runs exactly when a nonzero threshold is
\* supplied, as a pipeline of its own whose output is the input of the main
\* chain; the main chain is median, blur, negate, grayscale, modulate, tint
\* in that order; without a nonzero threshold the main chain runs on the
\* caller's buffer and the engine is invoked once.
C9_EffectsOrder ==
    \A c \in Calls :
        IsCall(c, "setImageEffects") =>
            LET inv == Invocations(c)
                p == args[c].props
                pre == p.threshold # << >> /\ p.threshold[1] # 0
                main == inv[Len(inv)]
            IN  /\ inv[1].step = "threshold" <=> pre
                /\ pre => /\ StepNames(inv[1].job.chain) = <<"threshold">>
                          /\ inv[1].job.input = args[c].imageBuffer
                          /\ inv[1].job.chain[1].value = p.threshold[1]
                /\ main.step = "effects" =>
                     /\ StepNames(main.job.chain) =
                            <<"median", "blur", "negate", "grayscale", "modulate", "tint">>
                     /\ main.job.input.hist = (IF pre THEN inv[1].job.chain ELSE << >>)
                     /\ ~pre => main.job.input = args[c].imageBuffer
                /\ outcome[c].kind = "returned" =>
                     /\ main.step = "effects"
                     /\ Len(inv) = (IF pre THEN 2 ELSE 1)
                     /\ outcome[c].value.hist = main.job.input.hist \o main.job.chain

C9_Witness ==
    \E c \in Calls :
        /\ IsCall(c, "setImageEffects")
        /\ outcome[c].kind = "returned"
        /\ Len(Invocations(c)) = 2
        /\ args[c].props.median = <<2>>

\* C10: within a call each engine step is invoked at most once, and once a
\* step has raised no further step is invoked and the call ends in failure.
C10_NoRetry ==
    \A c \in Calls :
        /\ \A i \in 1..Len(log[c]), j \in 1..Len(log[c]) :
             i < j /\ log[c][i].ev = "invoke" /\ log[c][j].ev = "invoke" =>
                 log[c][i].step # log[c][j].step
        /\ \A i \in 1..Len(log[c]) :
             log[c][i].ev = "fault" =>
                 /\ i = Len(log[c])
                 /\ pc[c] = "done"
                 /\ outcome[c].kind = "thrown"

C10_Witness ==
    \E c \in Calls :
        /\ IsCall(c, "setImageEffects")
        /\ Len(log[c]) = 2
        /\ log[c][1].step = "threshold"
        /\ log[c][2].ev = "fault"
        /\ outcome[c].kind = "thrown"

====
